---- MODULE Spec2Model ----
(***************************************************************************)
(* Model of the report engine of Vivisect (src/src/core/report.py):        *)
(* ReportGenerator.create_report, add_finding, add_artifact,               *)
(* add_timeline_event, _prepare_visualization_data, the three renderers    *)
(* and save_report.                                                        *)
(*                                                                         *)
(* Python dicts are objects: a report's lists hold REFERENCES to the dicts *)
(* the caller passed.  The model keeps a heap of dicts (heap[o] is the     *)
(* current content of object o) and a report's findings / artifacts /      *)
(* timeline are sequences of object identifiers.                           *)
(*                                                                         *)
(* A dict is a function whose DOMAIN is its set of keys.  Timestamps are   *)
(* strings that the code compares and slices, so they are sequences of     *)
(* character codes; every other field value is an opaque string.           *)
(***************************************************************************)
EXTENDS Integers, Sequences, FiniteSets, TLC

\* ------------------------------------------------------------------ bounds
MaxCalls == 3
MaxClock == 1
MaxSaves == 2
NumThreads == 2
MaxThreadCalls == 2
MaxFindings == 2
MaxArtifacts == 2
MaxEvents == 1
MaxReports == 2
MaxChartEvents == 2

\* ------------------------------------------------------------- dict helpers
EmptyDict == <<>>

\* d.get(k, default)
Get(d, k, default) == IF k \in DOMAIN d THEN d[k] ELSE default

\* d[k] = v
Put(d, k, v) == [x \in (DOMAIN d) \cup {k} |-> IF x = k THEN v ELSE d[x]]

\* ------------------------------------------------------------- timestamps
\* character codes (ASCII)
ChT == 84
ChDigit(n) == 48 + n

\* datetime.now().isoformat(): "<date>T<hh>..." for clock value n (hours)
IsoFormat(n) == << ChDigit(n \div 24), ChT, ChDigit((n % 24) \div 10), ChDigit((n % 24) % 10) >>

\* datetime.now().strftime('%Y%m%d_%H%M%S') for clock value n
StrfTime(n) == << ChDigit(n \div 24), 95, ChDigit((n % 24) \div 10), ChDigit((n % 24) % 10) >>

\* the string 'N/A' and the empty string, as timestamp-typed values
StrNA == << 78, 47, 65 >>
StrEmpty == << >>

\* ------------------------------------------------------------------ inputs
\* case identifiers, as strings of character codes: "C1" and the empty string
CaseIds == { << 67, 49 >>, << >> }
Modules == { "memory", "artifacts" }
Formats == { "json", "html", "txt", "xml" }

\* a timestamp a caller supplies in a payload
CallerTs == << ChDigit(0), ChT, ChDigit(0), ChDigit(5) >>

\* dict literals callers pass to add_finding / add_artifact / add_timeline_event;
\* the values are strings, except under the key ports, a tuple of strings
FindingPayloads ==
    { EmptyDict,
      [type |-> "X", description |-> "Y", severity |-> "Critical"],
      [severity |-> "Bogus", timestamp |-> CallerTs,
       ports |-> [py |-> "tuple", items |-> << "80", "443" >>]] }

ArtifactPayloads ==
    { [type |-> "PCAP", path |-> "/tmp/a.pcap"],
      [path |-> "/tmp/b.img", hash |-> "abc", size |-> "1 MB"] }

EventPayloads ==
    { [type |-> "Boot", description |-> "start", timestamp |-> CallerTs],
      [description |-> "login"] }

\* every dict a caller may pass, the empty one included
ArtifactDicts == ArtifactPayloads \cup { EmptyDict }
EventDicts == EventPayloads \cup { EmptyDict }

\* ------------------------------------------------------------------- state
VARIABLES
    heap,      \* heap[o]: content of dict object o
    reports,   \* reports[r]: the dict returned by the r-th create_report
    now,       \* the latest value datetime.now() returned
    files,     \* the output directory: path -> content
    output_dir, \* whether the output directory exists
    result,    \* outcome of the most recent call
    calls,     \* history: the add_* calls made, in call order
    th,        \* th[t]: where thread t is in the call it is running
    emitted    \* the socket events emitted, in order

vars == << heap, reports, now, files, output_dir, result, calls, th, emitted >>

RIds == 1..Len(reports)

\* finding[k] = v on object o
SetItem(h, o, k, v) == [h EXCEPT ![o] = Put(@, k, v)]

\* report[field].insert(0, o)
ListPrepend(reps, r, field, o) == [reps EXCEPT ![r][field] = << o >> \o @]

\* report[field].append(o)
ListAppend(reps, r, field, o) == [reps EXCEPT ![r][field] = Append(@, o)]

\* datetime.now(): the values the clock can show to a call, never earlier
\* than the latest value it returned
ClockValues == { t \in now..(now + 1) : t <= MaxClock }

\* ------------------------------------------------------------- Report Model
NewReport(case_id, clock) ==
    [ case_id |-> case_id,
      timestamp |-> IsoFormat(clock),
      hostname |-> "host",
      vivisect_version |-> "1.0.0",
      modules |-> EmptyDict,
      findings |-> << >>,
      artifacts |-> << >>,
      timeline |-> << >> ]

CreateReport(case_id, clock) ==
    /\ clock \in ClockValues
    /\ now' = clock
    /\ reports' = Append(reports, NewReport(case_id, clock))
    /\ result' = [op |-> "create_report", r |-> Len(reports) + 1]
    /\ UNCHANGED << heap, files, output_dir, calls, th, emitted >>

\* the heap once the caller holds the dict it is about to pass: object o is
\* either a dict the caller already holds or a new literal d
WithArg(o, d) == IF o = Len(heap) + 1 THEN Append(heap, d) ELSE heap

\* add_finding, statement by statement
AddFindingModule(h, o, module) == SetItem(h, o, "module", module)
AddFindingStamp(h, o, clock) == SetItem(h, o, "timestamp", IsoFormat(clock))
\* report['findings'] = [finding]
AddFindingAssign(reps, r, o) == [reps EXCEPT ![r].findings = << o >>]

AddFindingAppend(reps, r, o) == ListAppend(reps, r, "findings", o)

\* add_artifact, statement by statement
AddArtifactStamp(h, o, clock) == SetItem(h, o, "timestamp", IsoFormat(clock))
AddArtifactAppend(reps, r, o) == ListAppend(reps, r, "artifacts", o)

\* event['timestamp'] = ... without the test
AddEventStampAlways(h, o, clock) == SetItem(h, o, "timestamp", IsoFormat(clock))

\* add_timeline_event, statement by statement
AddEventStamp(h, o, clock) ==
    IF "timestamp" \notin DOMAIN h[o]
    THEN SetItem(h, o, "timestamp", IsoFormat(clock))
    ELSE h
AddEventAppend(reps, r, o) == ListAppend(reps, r, "timeline", o)

CanCall(r, o, d, payloads) ==
    /\ r \in RIds
    /\ Len(calls) < MaxCalls
    /\ o \in 1..(Len(heap) + 1)
    /\ IF o = Len(heap) + 1 THEN d \in payloads ELSE d = heap[o]

AddFinding(r, o, module, d, clock) ==
    /\ CanCall(r, o, d, FindingPayloads)
    /\ clock \in ClockValues
    /\ now' = clock
    /\ heap' = AddFindingStamp(AddFindingModule(WithArg(o, d), o, module), o, clock)
    /\ reports' = AddFindingAppend(reports, r, o)
    /\ calls' = Append(calls, [op |-> "add_finding", r |-> r, o |-> o])
    /\ result' = [op |-> "add_finding", r |-> r]
    /\ UNCHANGED << files, output_dir, th, emitted >>

AddArtifact(r, o, d, clock) ==
    /\ CanCall(r, o, d, ArtifactDicts)
    /\ clock \in ClockValues
    /\ now' = clock
    /\ heap' = AddArtifactStamp(WithArg(o, d), o, clock)
    /\ reports' = AddArtifactAppend(reports, r, o)
    /\ calls' = Append(calls, [op |-> "add_artifact", r |-> r, o |-> o])
    /\ result' = [op |-> "add_artifact", r |-> r]
    /\ UNCHANGED << files, output_dir, th, emitted >>

AddTimelineEvent(r, o, d, clock) ==
    /\ CanCall(r, o, d, EventDicts)
    /\ clock \in (IF "timestamp" \in DOMAIN d THEN { now } ELSE ClockValues)
    /\ now' = clock
    /\ heap' = AddEventStamp(WithArg(o, d), o, clock)
    /\ reports' = AddEventAppend(reports, r, o)
    /\ calls' = Append(calls, [op |-> "add_timeline_event", r |-> r, o |-> o])
    /\ result' = [op |-> "add_timeline_event", r |-> r]
    /\ UNCHANGED << files, output_dir, th, emitted >>

\* ------------------------------------------------------- Aggregation Engine
\* string comparison a < b (lexicographic on character codes)
RECURSIVE StrLess(_, _)
StrLess(a, b) ==
    IF b = << >> THEN FALSE
    ELSE IF a = << >> THEN TRUE
    ELSE IF Head(a) # Head(b) THEN Head(a) < Head(b)
    ELSE StrLess(Tail(a), Tail(b))

\* the dicts a list of references points to
Deref(h, list) == [i \in 1..Len(list) |-> h[list[i]]]

\* for x in items: counts[key(x)] = 1
RECURSIVE CountLoopSet(_, _, _, _)
CountLoopSet(items, key, default, counts) ==
    IF items = << >> THEN counts
    ELSE CountLoopSet(Tail(items), key, default, Put(counts, Get(Head(items), key, default), 1))

\* for x in items: counts[key(x)] = counts.get(key(x), 0) + 1
RECURSIVE CountLoop(_, _, _, _)
CountLoop(items, key, default, counts) ==
    IF items = << >> THEN counts
    ELSE LET k == Get(Head(items), key, default)
         IN  CountLoop(Tail(items), key, default, Put(counts, k, Get(counts, k, 0) + 1))

SeverityZero == [Critical |-> 0, High |-> 0, Medium |-> 0, Low |-> 0, Info |-> 0]

\* a severity loop that skips the findings whose severity is not a key
RECURSIVE SeverityLoopSkip(_, _)
SeverityLoopSkip(items, counts) ==
    IF items = << >> THEN counts
    ELSE LET severity == Get(Head(items), "severity", "Info")
         IN  IF severity \in DOMAIN counts
             THEN SeverityLoopSkip(Tail(items), [counts EXCEPT ![severity] = @ + 1])
             ELSE SeverityLoopSkip(Tail(items), counts)

\* the severity loop of _prepare_visualization_data
RECURSIVE SeverityLoop(_, _)
SeverityLoop(items, counts) ==
    IF items = << >> THEN counts
    ELSE LET severity == Get(Head(items), "severity", "Info")
         IN  IF severity \in DOMAIN counts
             THEN SeverityLoop(Tail(items), [counts EXCEPT ![severity] = @ + 1])
             ELSE SeverityLoop(Tail(items), [counts EXCEPT !["Info"] = @ + 1])

\* the two tests in the other order
SeverityClassHighFirst(critical_findings, high_findings) ==
    IF high_findings > 0 THEN "warning"
    ELSE IF critical_findings > 0 THEN "critical"
    ELSE "success"

SeverityClass(critical_findings, high_findings) ==
    IF critical_findings > 0 THEN "critical"
    ELSE IF high_findings > 0 THEN "warning"
    ELSE "success"

\* key=lambda x: x.get('timestamp', '')
SortKey(h, o) == Get(h[o], "timestamp", StrEmpty)

\* an insertion that puts x in front of the elements equal to it
RECURSIVE InsertAscBeforeEqual(_, _, _)
InsertAscBeforeEqual(h, sorted, o) ==
    IF sorted = << >> THEN << o >>
    ELSE IF ~StrLess(Get(h[Head(sorted)], "timestamp", << >>), Get(h[o], "timestamp", << >>))
         THEN << o >> \o sorted
         ELSE << Head(sorted) >> \o InsertAscBeforeEqual(h, Tail(sorted), o)

\* sorted(): a stable sort; x goes behind every element that does not order
\* after it
RECURSIVE InsertAsc(_, _, _)
InsertAsc(h, sorted, o) ==
    IF sorted = << >> THEN << o >>
    ELSE IF StrLess(SortKey(h, o), SortKey(h, Head(sorted)))
         THEN << o >> \o sorted
         ELSE << Head(sorted) >> \o InsertAsc(h, Tail(sorted), o)

RECURSIVE SortedAsc(_, _, _)
SortedAsc(h, list, acc) ==
    IF list = << >> THEN acc
    ELSE SortedAsc(h, Tail(list), InsertAsc(h, acc, Head(list)))

\* sorted(...) without reverse=True in the timeline section
InsertDescAscending(h, sorted, o) == InsertAsc(h, sorted, o)

\* sorted(..., reverse=True): stable as well, equal keys keep list order
RECURSIVE InsertDesc(_, _, _)
InsertDesc(h, sorted, o) ==
    IF sorted = << >> THEN << o >>
    ELSE IF StrLess(SortKey(h, Head(sorted)), SortKey(h, o))
         THEN << o >> \o sorted
         ELSE << Head(sorted) >> \o InsertDesc(h, Tail(sorted), o)

RECURSIVE SortedDesc(_, _, _)
SortedDesc(h, list, acc) ==
    IF list = << >> THEN acc
    ELSE SortedDesc(h, Tail(list), InsertDesc(h, acc, Head(list)))

PrepareTimelineData(h, timeline) == SortedAsc(h, timeline, << >>)

\* timeline.sort(key=...): the list itself is sorted
TimelineSortedInPlace(h, timeline) == SortedAsc(h, timeline, << >>)

\* the list passed to _prepare_timeline_data, after the call: sorted() builds
\* a new list and leaves its argument as it is
TimelineAfterPrepare(h, timeline) == timeline

PrepareVisualizationData(h, report) ==
    LET findings == Deref(h, report.findings)
        artifacts == Deref(h, report.artifacts)
        module_counts == CountLoop(findings, "module", "Unknown", EmptyDict)
        severity_counts == SeverityLoop(findings, SeverityZero)
        artifact_types == CountLoop(artifacts, "type", "Unknown", EmptyDict)
        critical_findings == severity_counts["Critical"]
        high_findings == severity_counts["High"]
    IN  [ module_counts |-> module_counts,
          severity_counts |-> severity_counts,
          artifact_types |-> artifact_types,
          critical_findings |-> critical_findings,
          severity_class |-> SeverityClass(critical_findings, high_findings),
          critical_class |-> SeverityClass(critical_findings, high_findings),
          timeline_data |-> PrepareTimelineData(h, report.timeline) ]

\* timestamp.split('T')[1]: what lies between the first 'T' and the next
RECURSIVE UpToT(_)
UpToT(s) ==
    IF s = << >> \/ Head(s) = ChT THEN << >> ELSE << Head(s) >> \o UpToT(Tail(s))

RECURSIVE AfterT(_)
AfterT(s) == IF Head(s) = ChT THEN Tail(s) ELSE AfterT(Tail(s))

HasT(s) == \E i \in 1..Len(s) : s[i] = ChT

\* s[:2]
Prefix2(s) == SubSeq(s, 1, IF Len(s) < 2 THEN Len(s) ELSE 2)

\* the hour key of one event in _generate_chart_scripts
HourKey(timestamp) ==
    (IF HasT(timestamp) THEN Prefix2(UpToT(AfterT(timestamp))) ELSE << 48, 48 >>)
        \o << 58, 48, 48 >>

\* the hour bucketing loop of _generate_chart_scripts
RECURSIVE TimelineCounts(_, _)
TimelineCounts(events, counts) ==
    IF events = << >> THEN counts
    ELSE LET timestamp == Get(Head(events), "timestamp", StrEmpty)
         IN  IF timestamp # StrEmpty
             THEN TimelineCounts(Tail(events),
                      Put(counts, HourKey(timestamp), Get(counts, HourKey(timestamp), 0) + 1))
             ELSE TimelineCounts(Tail(events), counts)

\* the statistics a render derives from a report
Stats(h, report) ==
    LET viz == PrepareVisualizationData(h, report)
    IN  [ viz |-> viz,
          timeline_counts |-> TimelineCounts(Deref(h, viz.timeline_data), EmptyDict) ]

Aggregate(r) ==
    /\ r \in RIds
    /\ result' = [op |-> "aggregate", r |-> r, stats |-> Stats(heap, reports[r])]
    /\ reports' = [reports EXCEPT ![r].timeline = TimelineAfterPrepare(heap, @)]
    /\ UNCHANGED << heap, now, files, output_dir, calls, th, emitted >>

\* ---------------------------------------------------------------- Renderers
\* str.lower() and str.upper() on the severity strings in use
Lower(s) ==
    CASE s = "Critical" -> "critical"
      [] s = "CRITICAL" -> "critical"
      [] s = "High" -> "high"
      [] s = "Medium" -> "medium"
      [] s = "Low" -> "low"
      [] s = "Info" -> "info"
      [] s = "Bogus" -> "bogus"
      [] OTHER -> s

Upper(s) ==
    CASE s = "critical" -> "CRITICAL"
      [] s = "high" -> "HIGH"
      [] s = "medium" -> "MEDIUM"
      [] s = "low" -> "LOW"
      [] s = "info" -> "INFO"
      [] s = "bogus" -> "BOGUS"
      [] OTHER -> s

\* a card that leaves a missing field blank
FindingCardBlank(finding) ==
    [ css |-> Lower(Get(finding, "severity", "Info")),
      badge |-> Upper(Lower(Get(finding, "severity", "Info"))),
      module |-> Get(finding, "module", ""),
      type |-> Get(finding, "type", ""),
      description |-> Get(finding, "description", ""),
      timestamp |-> Get(finding, "timestamp", StrNA) ]

\* one card of _generate_findings_html
FindingCard(finding) ==
    LET severity == Lower(Get(finding, "severity", "Info"))
    IN  [ css |-> severity,
          badge |-> Upper(severity),
          module |-> Get(finding, "module", "Unknown"),
          type |-> Get(finding, "type", "General"),
          description |-> Get(finding, "description", "N/A"),
          timestamp |-> Get(finding, "timestamp", StrNA) ]

GenerateFindingsHtml(findings) ==
    IF findings = << >> THEN [kind |-> "no-data", cards |-> << >>]
    ELSE [kind |-> "grid", cards |-> [i \in 1..Len(findings) |-> FindingCard(findings[i])]]

\* one card of _generate_artifacts_html
ArtifactCard(artifact) ==
    [ type |-> Get(artifact, "type", "Unknown"),
      path |-> Get(artifact, "path", "N/A"),
      hash |-> Get(artifact, "hash", "N/A"),
      timestamp |-> Get(artifact, "timestamp", StrNA),
      size_line |-> Get(artifact, "size", "N/A") # "N/A",
      size |-> Get(artifact, "size", "N/A") ]

GenerateArtifactsHtml(artifacts) ==
    IF artifacts = << >> THEN [kind |-> "no-data", cards |-> << >>]
    ELSE [kind |-> "grid", cards |-> [i \in 1..Len(artifacts) |-> ArtifactCard(artifacts[i])]]

\* one item of _generate_timeline_html
TimelineItem(event) ==
    [ timestamp |-> Get(event, "timestamp", StrNA),
      description |-> Get(event, "description", "N/A"),
      type |-> Get(event, "type", "Event") ]

GenerateTimelineHtml(h, timeline) ==
    IF timeline = << >> THEN [kind |-> "no-data", cards |-> << >>]
    ELSE LET sorted_timeline == SortedDesc(h, timeline, << >>)
         IN  [kind |-> "grid",
              cards |-> [i \in 1..Len(sorted_timeline) |-> TimelineItem(h[sorted_timeline[i]])]]

\* sum(counts.values())
RECURSIVE SumValues(_)
SumValues(counts) ==
    IF DOMAIN counts = {} THEN 0
    ELSE LET k == CHOOSE x \in DOMAIN counts : TRUE
         IN  counts[k] + SumValues([x \in DOMAIN counts \ {k} |-> counts[x]])

\* _generate_module_chart, _generate_severity_chart, _generate_timeline_chart,
\* _generate_file_type_chart: a canvas or the no-data placeholder
GenerateModuleChart(viz) == IF DOMAIN viz.module_counts = {} THEN "no-data" ELSE "canvas"
GenerateSeverityChartAlways(viz) == "canvas"
GenerateSeverityChart(viz) == IF SumValues(viz.severity_counts) = 0 THEN "no-data" ELSE "canvas"
GenerateTimelineChart(viz) == IF viz.timeline_data = << >> THEN "no-data" ELSE "canvas"
GenerateFileTypeChart(viz) == IF DOMAIN viz.artifact_types = {} THEN "no-data" ELSE "canvas"

\* _generate_chart_scripts: for each chart, the data its script carries, or
\* no script
NoScript == [present |-> FALSE, data |-> EmptyDict]
Script(data) == [present |-> TRUE, data |-> data]

GenerateChartScripts(h, viz) ==
    LET timeline_counts == TimelineCounts(Deref(h, viz.timeline_data), EmptyDict)
    IN  [ module |-> IF DOMAIN viz.module_counts # {} THEN Script(viz.module_counts) ELSE NoScript,
          severity |-> IF SumValues(viz.severity_counts) > 0
                       THEN Script(viz.severity_counts) ELSE NoScript,
          timeline |-> IF viz.timeline_data # << >> /\ DOMAIN timeline_counts # {}
                       THEN Script(timeline_counts) ELSE NoScript,
          file_type |-> IF DOMAIN viz.artifact_types # {}
                        THEN Script(viz.artifact_types) ELSE NoScript ]

\* timeline.sort(key=..., reverse=True): the list itself is sorted
TimelineSortedDescInPlace(h, timeline) == SortedDesc(h, timeline, << >>)

\* the list passed to _generate_timeline_html, after the call: sorted(...,
\* reverse=True) leaves its argument as it is
TimelineAfterHtml(h, timeline) == timeline

\* _generate_html_report evaluated without interruption
GenerateHtmlReport(h, report) ==
    LET viz == PrepareVisualizationData(h, report)
    IN  [ format |-> "html",
          case_id |-> report.case_id,
          timestamp |-> report.timestamp,
          hostname |-> report.hostname,
          version |-> report.vivisect_version,
          tile_findings |-> Len(report.findings),
          tile_findings_class |-> viz.severity_class,
          tile_artifacts |-> Len(report.artifacts),
          tile_timeline |-> Len(report.timeline),
          tile_critical |-> viz.critical_findings,
          tile_critical_class |-> viz.critical_class,
          module_chart |-> GenerateModuleChart(viz),
          severity_chart |-> GenerateSeverityChart(viz),
          timeline_chart |-> GenerateTimelineChart(viz),
          file_type_chart |-> GenerateFileTypeChart(viz),
          findings_header |-> Len(report.findings),
          findings |-> GenerateFindingsHtml(Deref(h, report.findings)),
          artifacts_header |-> Len(report.artifacts),
          artifacts |-> GenerateArtifactsHtml(Deref(h, report.artifacts)),
          timeline_header |-> Len(report.timeline),
          timeline |-> GenerateTimelineHtml(h, report.timeline),
          scripts |-> GenerateChartScripts(h, viz) ]

\* enumerate(report['findings']): the index starts at 0
TextFindingZeroBased(i, finding) ==
    [ index |-> i - 1,
      module |-> Get(finding, "module", "Unknown"),
      type |-> Get(finding, "type", "General"),
      description |-> Get(finding, "description", "N/A"),
      severity |-> Get(finding, "severity", "Info") ]

\* _generate_text_report
TextFinding(i, finding) ==
    [ index |-> i,
      module |-> Get(finding, "module", "Unknown"),
      type |-> Get(finding, "type", "General"),
      description |-> Get(finding, "description", "N/A"),
      severity |-> Get(finding, "severity", "Info") ]

TextArtifact(i, artifact) ==
    [ index |-> i,
      type |-> Get(artifact, "type", "Unknown"),
      path |-> Get(artifact, "path", "N/A"),
      hash |-> Get(artifact, "hash", "N/A") ]

\* a text report with a TIMELINE (n) section header
GenerateTextReportWithTimeline(h, report) ==
    [ format |-> "txt",
      case_id |-> report.case_id,
      timestamp |-> report.timestamp,
      hostname |-> report.hostname,
      version |-> report.vivisect_version,
      findings_count |-> Len(report.findings),
      findings |-> [i \in 1..Len(report.findings) |-> TextFinding(i, h[report.findings[i]])],
      artifacts_count |-> Len(report.artifacts),
      artifacts |-> [i \in 1..Len(report.artifacts) |-> TextArtifact(i, h[report.artifacts[i]])],
      timeline_count |-> Len(report.timeline) ]

GenerateTextReport(h, report) ==
    [ format |-> "txt",
      case_id |-> report.case_id,
      timestamp |-> report.timestamp,
      hostname |-> report.hostname,
      version |-> report.vivisect_version,
      findings_count |-> Len(report.findings),
      findings |-> [i \in 1..Len(report.findings) |-> TextFinding(i, h[report.findings[i]])],
      artifacts_count |-> Len(report.artifacts),
      artifacts |-> [i \in 1..Len(report.artifacts) |-> TextArtifact(i, h[report.artifacts[i]])] ]

\* the keys whose values are sequences (a tuple, a list) and not strings
SequenceKeys == { "ports" }

\* json.dump of one value: a str becomes a JSON string, a tuple or a list a
\* JSON array
JsonString(v) == [json |-> "string", value |-> v]

JsonEncode(k, v) ==
    IF k \in SequenceKeys
    THEN [json |-> "array", items |-> [i \in 1..Len(v.items) |-> JsonString(v.items[i])]]
    ELSE JsonString(v)

JsonObject(d) == [k \in DOMAIN d |-> JsonEncode(k, d[k])]

\* json.dump(report, f, indent=4): the document written
JsonDump(h, report) ==
    [ format |-> "json",
      case_id |-> JsonString(report.case_id),
      timestamp |-> JsonString(report.timestamp),
      hostname |-> JsonString(report.hostname),
      vivisect_version |-> JsonString(report.vivisect_version),
      modules |-> JsonObject(report.modules),
      findings |-> [i \in 1..Len(report.findings) |-> JsonObject(h[report.findings[i]])],
      artifacts |-> [i \in 1..Len(report.artifacts) |-> JsonObject(h[report.artifacts[i]])],
      timeline |-> [i \in 1..Len(report.timeline) |-> JsonObject(h[report.timeline[i]])] ]

\* -------------------------------------------------------------- Persistence
\* every file named .txt
ExtTxt(format_type) == << 116, 120, 116 >>

\* the extension of a supported format, as characters
Ext(format_type) ==
    CASE format_type = "json" -> << 106, 115, 111, 110 >>
      [] format_type = "html" -> << 104, 116, 109, 108 >>
      [] format_type = "txt" -> << 116, 120, 116 >>

\* f"{case_id}_report.<ext>"
FileNameNoTime(case_id, timestamp, format_type) ==
    case_id \o << 95, 114, 101, 112, 111, 114, 116, 46 >> \o Ext(format_type)

\* f"{case_id}_{timestamp}_report.<ext>"
FileName(case_id, timestamp, format_type) ==
    case_id \o << 95 >> \o timestamp
        \o << 95, 114, 101, 112, 111, 114, 116, 46 >> \o Ext(format_type)

Render(h, report, format_type) ==
    CASE format_type = "json" -> JsonDump(h, report)
      [] format_type = "html" -> GenerateHtmlReport(h, report)
      [] format_type = "txt" -> GenerateTextReport(h, report)

\* the report after the renderer of format_type ran on it (json.dump and the
\* text renderer only read; the html renderer sorts copies of the timeline)
ReportAfterRender(h, report, format_type) ==
    IF format_type = "html"
    THEN [report EXCEPT !.timeline = TimelineAfterHtml(h, TimelineAfterPrepare(h, @))]
    ELSE report

\* open(filepath, 'w') and the write: the file holds exactly the new content
WriteFile(fs, path, content) ==
    { f \in fs : f.path # path } \cup { [path |-> path, content |-> content] }

\* save_report; open() raises FileNotFoundError when the output directory is
\* gone; io_ok tells whether open() and the write succeed otherwise
Saving(r, format_type, io_ok, clock) ==
    /\ now' = clock
    /\ LET report == reports[r]
           filename == FileName(report.case_id, StrfTime(clock), format_type)
       IN  IF format_type \in { "json", "html", "txt" }
           THEN /\ reports' = [reports EXCEPT ![r] = ReportAfterRender(heap, @, format_type)]
                /\ IF ~output_dir
                   THEN /\ files' = files
                        /\ result' = [op |-> "save_report", r |-> r, format |-> format_type,
                                      outcome |-> "raise", value |-> StrEmpty,
                                      error |-> "FileNotFoundError"]
                   ELSE IF io_ok
                   THEN /\ files' = WriteFile(files, filename, Render(heap, report, format_type))
                        /\ result' = [op |-> "save_report", r |-> r, format |-> format_type,
                                      outcome |-> "return", value |-> filename, error |-> ""]
                   ELSE /\ files' = files
                        /\ result' = [op |-> "save_report", r |-> r, format |-> format_type,
                                      outcome |-> "raise", value |-> StrEmpty, error |-> "OSError"]
           ELSE /\ reports' = reports
                /\ files' = files
                /\ result' = [op |-> "save_report", r |-> r, format |-> format_type,
                              outcome |-> "raise", value |-> StrEmpty,
                              error |-> "UnboundLocalError"]

SaveReport(r, format_type, io_ok, clock) ==
    /\ r \in RIds
    /\ Cardinality(files) < MaxSaves
    /\ clock \in ClockValues
    /\ Saving(r, format_type, io_ok, clock)
    /\ UNCHANGED << heap, calls, th, output_dir, emitted >>

\* ReportGenerator(output_dir): os.makedirs(output_dir, exist_ok=True); what the
\* directory holds stays
NewGenerator ==
    /\ output_dir' = TRUE
    /\ result' = [op |-> "init"]
    /\ UNCHANGED << heap, reports, now, files, calls, th, emitted >>

\* the environment removes the output directory and what it holds
RemoveDir ==
    /\ output_dir
    /\ output_dir' = FALSE
    /\ files' = {}
    /\ result' = [op |-> "rmtree"]
    /\ UNCHANGED << heap, reports, now, calls, th, emitted >>

\* ------------------------------------------------------------------ threads
\* Several threads call into one ReportGenerator on one report.  A thread
\* switch can fall between any two statements; one statement on a dict or a
\* list (d[k] = v, list.append, len, an iteration) is one step.
Threads == 1..NumThreads

Idle == [pc |-> "idle", r |-> 0, o |-> 0, module |-> "", obs |-> EmptyDict]

Goto(t, pc) == [th EXCEPT ![t].pc = pc]

Observe(t, pc, key, value) ==
    [th EXCEPT ![t].pc = pc, ![t].obs = Put(@, key, value)]

\* Threads are interchangeable: a new call runs on the first free thread.
FirstFree(t) == th[t].pc = "idle" /\ \A u \in Threads : u < t => th[u].pc # "idle"

\* a thread enters add_finding / add_artifact / add_timeline_event
BeginAdd(t, op, pc, r, o, module, d, payloads) ==
    /\ FirstFree(t)
    /\ Len(calls) < MaxThreadCalls
    /\ CanCall(r, o, d, payloads)
    /\ heap' = WithArg(o, d)
    /\ calls' = Append(calls, [op |-> op, r |-> r, o |-> o])
    /\ th' = [th EXCEPT ![t] = [pc |-> pc, r |-> r, o |-> o, module |-> module,
                                 obs |-> EmptyDict]]
    /\ UNCHANGED << reports, now, files, output_dir, result, emitted >>

\* finding['module'] = module
AfModule(t) ==
    /\ th[t].pc = "af_module"
    /\ heap' = AddFindingModule(heap, th[t].o, th[t].module)
    /\ th' = Goto(t, "af_stamp")
    /\ UNCHANGED << reports, now, files, output_dir, result, calls, emitted >>

\* finding['timestamp'] = datetime.now().isoformat()
AfStamp(t, clock) ==
    /\ th[t].pc = "af_stamp"
    /\ clock \in ClockValues
    /\ now' = clock
    /\ heap' = AddFindingStamp(heap, th[t].o, clock)
    /\ th' = Goto(t, "af_append")
    /\ UNCHANGED << reports, files, output_dir, result, calls, emitted >>

\* report['findings'].append(finding)
AfAppend(t) ==
    /\ th[t].pc = "af_append"
    /\ reports' = AddFindingAppend(reports, th[t].r, th[t].o)
    /\ th' = Goto(t, "idle")
    /\ UNCHANGED << heap, now, files, output_dir, result, calls, emitted >>

\* artifact['timestamp'] = datetime.now().isoformat()
AaStamp(t, clock) ==
    /\ th[t].pc = "aa_stamp"
    /\ clock \in ClockValues
    /\ now' = clock
    /\ heap' = AddArtifactStamp(heap, th[t].o, clock)
    /\ th' = Goto(t, "aa_append")
    /\ UNCHANGED << reports, files, output_dir, result, calls, emitted >>

\* report['artifacts'].append(artifact)
AaAppend(t) ==
    /\ th[t].pc = "aa_append"
    /\ reports' = AddArtifactAppend(reports, th[t].r, th[t].o)
    /\ th' = Goto(t, "idle")
    /\ UNCHANGED << heap, now, files, output_dir, result, calls, emitted >>

\* if 'timestamp' not in event:
AtCheck(t) ==
    /\ th[t].pc = "at_check"
    /\ th' = Goto(t, IF "timestamp" \notin DOMAIN heap[th[t].o] THEN "at_stamp" ELSE "at_append")
    /\ UNCHANGED << heap, reports, now, files, output_dir, result, calls, emitted >>

\* event['timestamp'] = datetime.now().isoformat()
AtStamp(t, clock) ==
    /\ th[t].pc = "at_stamp"
    /\ clock \in ClockValues
    /\ now' = clock
    /\ heap' = SetItem(heap, th[t].o, "timestamp", IsoFormat(clock))
    /\ th' = Goto(t, "at_append")
    /\ UNCHANGED << reports, files, output_dir, result, calls, emitted >>

\* report['timeline'].append(event)
AtAppend(t) ==
    /\ th[t].pc = "at_append"
    /\ reports' = AddEventAppend(reports, th[t].r, th[t].o)
    /\ th' = Goto(t, "idle")
    /\ UNCHANGED << heap, now, files, output_dir, result, calls, emitted >>

\* a thread enters _generate_html_report
BeginRender(t, r) ==
    /\ FirstFree(t)
    /\ r \in RIds
    /\ th' = [th EXCEPT ![t] = [pc |-> "viz_modules", r |-> r, o |-> 0, module |-> "",
                                 obs |-> EmptyDict]]
    /\ UNCHANGED << heap, reports, now, files, output_dir, result, calls, emitted >>

\* _prepare_visualization_data: the loop over findings that counts modules
VizModules(t) ==
    /\ th[t].pc = "viz_modules"
    /\ th' = Observe(t, "viz_severity", "module_counts",
                 CountLoop(Deref(heap, reports[th[t].r].findings), "module", "Unknown", EmptyDict))
    /\ UNCHANGED << heap, reports, now, files, output_dir, result, calls, emitted >>

\* the loop over findings that counts severities
VizSeverity(t) ==
    /\ th[t].pc = "viz_severity"
    /\ th' = Observe(t, "viz_artifacts", "severity_counts",
                 SeverityLoop(Deref(heap, reports[th[t].r].findings), SeverityZero))
    /\ UNCHANGED << heap, reports, now, files, output_dir, result, calls, emitted >>

\* the loop over artifacts
VizArtifacts(t) ==
    /\ th[t].pc = "viz_artifacts"
    /\ th' = Observe(t, "viz_timeline", "artifact_types",
                 CountLoop(Deref(heap, reports[th[t].r].artifacts), "type", "Unknown", EmptyDict))
    /\ UNCHANGED << heap, reports, now, files, output_dir, result, calls, emitted >>

\* _prepare_timeline_data(timeline)
VizTimeline(t) ==
    /\ th[t].pc = "viz_timeline"
    /\ th' = Observe(t, "tile_findings", "timeline_data",
                 PrepareTimelineData(heap, reports[th[t].r].timeline))
    /\ UNCHANGED << heap, reports, now, files, output_dir, result, calls, emitted >>

\* the template reads len(report[list]) for a summary tile or a section header
ReadLen(t, pc, next, list) ==
    /\ th[t].pc = pc
    /\ th' = Observe(t, next, pc, Len(reports[th[t].r][list]))
    /\ UNCHANGED << heap, reports, now, files, output_dir, result, calls, emitted >>

\* _generate_findings_html(report['findings'])
CardsFindings(t) ==
    /\ th[t].pc = "cards_findings"
    /\ th' = Observe(t, "header_artifacts", "cards_findings",
                 GenerateFindingsHtml(Deref(heap, reports[th[t].r].findings)))
    /\ UNCHANGED << heap, reports, now, files, output_dir, result, calls, emitted >>

\* _generate_artifacts_html(report['artifacts'])
CardsArtifacts(t) ==
    /\ th[t].pc = "cards_artifacts"
    /\ th' = Observe(t, "header_timeline", "cards_artifacts",
                 GenerateArtifactsHtml(Deref(heap, reports[th[t].r].artifacts)))
    /\ UNCHANGED << heap, reports, now, files, output_dir, result, calls, emitted >>

\* _generate_timeline_html(report['timeline'])
CardsTimeline(t) ==
    /\ th[t].pc = "cards_timeline"
    /\ th' = Observe(t, "scripts", "cards_timeline",
                 GenerateTimelineHtml(heap, reports[th[t].r].timeline))
    /\ UNCHANGED << heap, reports, now, files, output_dir, result, calls, emitted >>

\* _generate_chart_scripts(viz_data): the hour buckets are read off the events
\* of viz_data['timeline_data']; the render is complete
ChartScripts(t) ==
    /\ th[t].pc = "scripts"
    /\ th' = Observe(t, "rendered", "timeline_counts",
                 TimelineCounts(Deref(heap, th[t].obs["timeline_data"]), EmptyDict))
    /\ UNCHANGED << heap, reports, now, files, output_dir, result, calls, emitted >>

\* the thread returns the page and is free for its next call
EndRender(t) ==
    /\ th[t].pc = "rendered"
    /\ th' = [th EXCEPT ![t] = Idle]
    /\ UNCHANGED << heap, reports, now, files, output_dir, result, calls, emitted >>

\* ------------------------------------------------------------ specification
Init ==
    /\ heap = << >>
    /\ reports = << >>
    /\ now = 0
    /\ files = {}
    /\ output_dir = TRUE
    /\ result = [op |-> "none"]
    /\ calls = << >>
    /\ th = [t \in Threads |-> Idle]
    /\ emitted = << >>

\* the dict objects a caller can pass to operation op: a new literal (object
\* Len(heap) + 1) or, if it reuses dicts, one it passed to op before
ArgObjs(reuse, op) ==
    { Len(heap) + 1 } \cup
        (IF reuse THEN { calls[i].o : i \in { j \in 1..Len(calls) : calls[j].op = op } } ELSE {})
ArgDicts(o, payloads) == IF o = Len(heap) + 1 THEN payloads ELSE { heap[o] }

\* one run follows one report from create_report on
Create(case_ids) ==
    reports = << >> /\ \E case_id \in case_ids, clock \in ClockValues : CreateReport(case_id, clock)

Collect(reuse, modules, finding_payloads) ==
    \/ \E r \in RIds, o \in ArgObjs(reuse, "add_finding"), module \in modules, clock \in ClockValues :
           \E d \in ArgDicts(o, finding_payloads) : AddFinding(r, o, module, d, clock)
    \/ \E r \in RIds, o \in ArgObjs(reuse, "add_artifact"), clock \in ClockValues :
           \E d \in ArgDicts(o, ArtifactPayloads) : AddArtifact(r, o, d, clock)
    \/ \E r \in RIds, o \in ArgObjs(reuse, "add_timeline_event"), clock \in ClockValues :
           \E d \in ArgDicts(o, EventPayloads) : AddTimelineEvent(r, o, d, clock)

Save ==
    \E r \in RIds, format_type \in Formats, io_ok \in BOOLEAN, clock \in ClockValues :
        SaveReport(r, format_type, io_ok, clock)

\* The report model and the aggregation: any sequence of create_report, add_*
\* and aggregation calls, callers free to pass a dict more than once.
Next ==
    \/ Create(CaseIds)
    \/ Collect(TRUE, Modules, FindingPayloads)
    \/ \E r \in RIds : Aggregate(r)

Spec == Init /\ [][Next]_vars

\* Collection followed by saving, as the callers do it (cli.py
\* handle_collect_command, web/app.py run_full_collection,
\* examples/demo_enhanced_reports.py): findings are added, then artifacts, then
\* timeline events, each a new dict, while nothing has been written; then the
\* report is saved, possibly several times.
Collecting == files = {}

CollectInOrder(r, clock) ==
    \/ /\ reports[r].artifacts = << >>
       /\ reports[r].timeline = << >>
       /\ AddFinding(r, Len(heap) + 1, "memory",
                     [type |-> "X", description |-> "Y", severity |-> "Critical"], clock)
    \/ /\ reports[r].timeline = << >>
       /\ \E d \in ArtifactPayloads : AddArtifact(r, Len(heap) + 1, d, clock)
    \/ \E d \in EventPayloads : AddTimelineEvent(r, Len(heap) + 1, d, clock)

NextSave ==
    \/ Create({ << 67, 49 >> })
    \/ Collecting /\ \E r \in RIds, clock \in ClockValues : CollectInOrder(r, clock)
    \/ Save

SpecSave == Init /\ [][NextSave]_vars

\* The aggregation as a function of the report: the report is drawn from the
\* reports create_report and add_* can build (every finding carries the module
\* and the timestamp add_finding sets, every artifact and event a timestamp),
\* over all severities, and aggregated.
AggSeverities == { "Critical", "High", "Medium", "Low", "Info", "Bogus" }

AggFindings ==
    { [module |-> m, timestamp |-> IsoFormat(0)] : m \in Modules }
        \cup { [module |-> m, timestamp |-> IsoFormat(0), severity |-> sev] :
                   m \in Modules, sev \in AggSeverities }

AggArtifacts ==
    { [type |-> "PCAP", path |-> "/tmp/a.pcap", timestamp |-> IsoFormat(0)],
      [path |-> "/tmp/b.img", timestamp |-> IsoFormat(0)] }

AggEvents ==
    { [description |-> "start", timestamp |-> CallerTs],
      [description |-> "login", timestamp |-> IsoFormat(0)] }

SeqsUpTo(S, n) == UNION { [1..k -> S] : k \in 0..n }

Logged(op, from, n) == [i \in 1..n |-> [op |-> op, r |-> 1, o |-> from + i]]

InitAgg ==
    \E fs \in SeqsUpTo(AggFindings, MaxFindings),
       as \in SeqsUpTo(AggArtifacts, MaxArtifacts),
       es \in SeqsUpTo(AggEvents, MaxEvents) :
        /\ heap = fs \o as \o es
        /\ reports = << [NewReport(<< 67, 49 >>, 0) EXCEPT
                            !.findings = [i \in 1..Len(fs) |-> i],
                            !.artifacts = [i \in 1..Len(as) |-> Len(fs) + i],
                            !.timeline = [i \in 1..Len(es) |-> Len(fs) + Len(as) + i]] >>
        /\ now = 0
        /\ files = {}
        /\ output_dir = TRUE
        /\ result = [op |-> "none"]
        /\ calls = Logged("add_finding", 0, Len(fs))
                       \o Logged("add_artifact", Len(fs), Len(as))
                       \o Logged("add_timeline_event", Len(fs) + Len(as), Len(es))
        /\ th = [t \in Threads |-> Idle]
        /\ emitted = << >>

NextAgg == \E r \in RIds : Aggregate(r)

SpecAgg == InitAgg /\ [][NextAgg]_vars

\* Threads sharing one report, each running add_* calls one statement at a
\* time, in any interleaving; a caller may pass a dict it passed before.
ThreadAdd(t, reuse, modules, finding_payloads, artifact_payloads, event_payloads) ==
    \/ \E r \in RIds, o \in ArgObjs(reuse, "add_finding"), module \in modules :
           \E d \in ArgDicts(o, finding_payloads) :
               BeginAdd(t, "add_finding", "af_module", r, o, module, d, finding_payloads)
    \/ \E r \in RIds, o \in ArgObjs(reuse, "add_artifact") :
           \E d \in ArgDicts(o, artifact_payloads) :
               BeginAdd(t, "add_artifact", "aa_stamp", r, o, "", d, artifact_payloads)
    \/ \E r \in RIds, o \in ArgObjs(reuse, "add_timeline_event") :
           \E d \in ArgDicts(o, event_payloads) :
               BeginAdd(t, "add_timeline_event", "at_check", r, o, "", d, event_payloads)
    \/ AfModule(t)
    \/ \E clock \in ClockValues : AfStamp(t, clock)
    \/ AfAppend(t)
    \/ \E clock \in ClockValues : AaStamp(t, clock)
    \/ AaAppend(t)
    \/ AtCheck(t)
    \/ \E clock \in ClockValues : AtStamp(t, clock)
    \/ AtAppend(t)

NextConc ==
    \/ Create({ << 67, 49 >> })
    \/ \E t \in Threads :
           ThreadAdd(t, TRUE, Modules, { [type |-> "X", description |-> "Y", severity |-> "Critical"] },
                     { [type |-> "PCAP", path |-> "/tmp/a.pcap"] }, EventPayloads)

SpecConc == Init /\ [][NextConc]_vars

\* Threads that append new entries to the report while others render it as
\* html.
ThreadRender(t) ==
    \/ \E r \in RIds : BeginRender(t, r)
    \/ VizModules(t)
    \/ VizSeverity(t)
    \/ VizArtifacts(t)
    \/ VizTimeline(t)
    \/ ReadLen(t, "tile_findings", "tile_artifacts", "findings")
    \/ ReadLen(t, "tile_artifacts", "tile_timeline", "artifacts")
    \/ ReadLen(t, "tile_timeline", "header_findings", "timeline")
    \/ ReadLen(t, "header_findings", "cards_findings", "findings")
    \/ CardsFindings(t)
    \/ ReadLen(t, "header_artifacts", "cards_artifacts", "artifacts")
    \/ CardsArtifacts(t)
    \/ ReadLen(t, "header_timeline", "cards_timeline", "timeline")
    \/ CardsTimeline(t)
    \/ ChartScripts(t)
    \/ EndRender(t)

NextRender ==
    \/ Create({ << 67, 49 >> })
    \/ \E t \in Threads :
           ThreadAdd(t, FALSE, { "memory" }, { [type |-> "X", description |-> "Y", severity |-> "Critical"] },
                     { [type |-> "PCAP", path |-> "/tmp/a.pcap"] }, { [description |-> "login"] })
    \/ \E t \in Threads : ThreadRender(t)

SpecRender == Init /\ [][NextRender]_vars

\* Persistence on its own: generators are constructed, reports of the case ids
\* "C1" and "C" are created and saved in every format, and the output directory is
\* removed behind the generator's back.
NameCaseIds == { << 67, 49 >>, << 67 >> }

CreateNamed ==
    /\ Len(reports) < MaxReports
    /\ \E case_id \in NameCaseIds, clock \in ClockValues : CreateReport(case_id, clock)

\* a save that fails only if the directory is gone
SaveToDir ==
    \E r \in RIds, format_type \in Formats, clock \in ClockValues :
        SaveReport(r, format_type, TRUE, clock)

NextFiles ==
    \/ CreateNamed
    \/ SaveToDir
    \/ NewGenerator
    \/ RemoveDir

SpecFiles == Init /\ [][NextFiles]_vars

\* One collection and its documents within one clock tick: findings of every
\* kind, then artifacts, each a new dict, are added while nothing has been
\* written; timeline events are added at any time; the report is saved in the
\* supported formats.
CollectVaried(r) ==
    \/ /\ Collecting
       /\ reports[r].artifacts = << >>
       /\ \E module \in Modules, d \in FindingPayloads :
              AddFinding(r, Len(heap) + 1, module, d, now)
    \/ /\ Collecting
       /\ \E d \in ArtifactDicts : AddArtifact(r, Len(heap) + 1, d, now)
    \/ \E d \in EventDicts : AddTimelineEvent(r, Len(heap) + 1, d, now)

SaveDoc ==
    \E r \in RIds, format_type \in { "json", "html", "txt" } :
        SaveReport(r, format_type, TRUE, now)

NextDocs ==
    \/ Create({ << 67, 49 >> })
    \/ \E r \in RIds : CollectVaried(r)
    \/ SaveDoc

SpecDocs == Init /\ [][NextDocs]_vars

\* The charts of reports of every content: findings of canonical, lower-case
\* and missing severity; events whose timestamp is well formed ("0T05"),
\* empty, without a time part ("05") and with a non-numeric hour ("0Txx").
ChartFindings ==
    { [module |-> "memory", timestamp |-> IsoFormat(0), severity |-> "Critical"],
      [module |-> "memory", timestamp |-> IsoFormat(0), severity |-> "critical"],
      [module |-> "artifacts", timestamp |-> IsoFormat(0)] }

ChartEvents ==
    { [description |-> "start", timestamp |-> CallerTs],
      [description |-> "blank", timestamp |-> StrEmpty],
      [description |-> "dateless", timestamp |-> << ChDigit(0), ChDigit(5) >>],
      [description |-> "odd", timestamp |-> << ChDigit(0), ChT, 120, 120 >>] }

InitCharts ==
    \E fs \in SeqsUpTo(ChartFindings, MaxFindings),
       as \in SeqsUpTo(AggArtifacts, MaxArtifacts),
       es \in SeqsUpTo(ChartEvents, MaxChartEvents) :
        /\ heap = fs \o as \o es
        /\ reports = << [NewReport(<< 67, 49 >>, 0) EXCEPT
                            !.findings = [i \in 1..Len(fs) |-> i],
                            !.artifacts = [i \in 1..Len(as) |-> Len(fs) + i],
                            !.timeline = [i \in 1..Len(es) |-> Len(fs) + Len(as) + i]] >>
        /\ now = 0
        /\ files = {}
        /\ output_dir = TRUE
        /\ result = [op |-> "none"]
        /\ calls = Logged("add_finding", 0, Len(fs))
                       \o Logged("add_artifact", Len(fs), Len(as))
                       \o Logged("add_timeline_event", Len(fs) + Len(as), Len(es))
        /\ th = [t \in Threads |-> Idle]
        /\ emitted = << >>

SaveHtml == \E r \in RIds : SaveReport(r, "html", TRUE, now)

NextCharts ==
    \/ \E r \in RIds : Aggregate(r)
    \/ SaveHtml

SpecCharts == InitCharts /\ [][NextCharts]_vars

\* ---------------------------------------------------------------- web app
\* POST /api/collect: every request starts a thread that runs
\* run_full_collection against the one ReportGenerator of the application.
\* th[t].r is the thread's local variable report, th[t].obs its other locals;
\* emitted[t] is what the thread passed to socketio.emit, in order.
WebSteps == << "memory", "browser", "logs", "persistence" >>
WebModules == << "memory", "artifacts", "artifacts", "artifacts" >>
WebTypes == << "live_analysis", "browser", "logs", "persistence" >>

Progress(step) == [event |-> "progress", step |-> step, status |-> "running"]

\* the event with the two paths exchanged
TaskCompleteSwapped(case_id, json_report, html_report) ==
    [ event |-> "task_complete", task |-> "collection", case_id |-> case_id,
      json_report |-> html_report, html_report |-> json_report ]

TaskComplete(case_id, json_report, html_report) ==
    [ event |-> "task_complete", task |-> "collection", case_id |-> case_id,
      json_report |-> json_report, html_report |-> html_report ]

Emit(t, event) == [emitted EXCEPT ![t] = Append(@, event)]

\* one report shared by all collections
FirstReport(t) == 1

\* the local variable report of run_full_collection
OwnReport(t) == th[t].r

\* run_collection: the request handler starts the thread
RunCollection(t, case_id) ==
    /\ th[t].pc = "idle"
    /\ \A u \in Threads : u < t => th[u].pc # "idle"
    /\ th' = [th EXCEPT ![t] = [pc |-> "w_create", r |-> 0, o |-> 0, module |-> "",
                                 obs |-> Put(EmptyDict, "case_id", case_id)]]
    /\ UNCHANGED << heap, reports, now, files, output_dir, result, calls, emitted >>

\* report = report_gen.create_report(case_id)
WebCreate(t, clock) ==
    /\ th[t].pc = "w_create"
    /\ clock \in ClockValues
    /\ now' = clock
    /\ reports' = Append(reports, NewReport(th[t].obs["case_id"], clock))
    /\ result' = [op |-> "create_report", r |-> Len(reports) + 1]
    /\ th' = [th EXCEPT ![t].pc = "w_emit", ![t].r = Len(reports) + 1, ![t].o = 1]
    /\ UNCHANGED << heap, files, output_dir, calls, emitted >>

\* socketio.emit('progress', {'step': ..., 'status': 'running'})
WebEmitProgress(t) ==
    /\ th[t].pc = "w_emit"
    /\ emitted' = Emit(t, Progress(WebSteps[th[t].o]))
    /\ th' = Goto(t, "w_add")
    /\ UNCHANGED << heap, reports, now, files, output_dir, result, calls >>

\* report_gen.add_finding(report, <module>, {'type': ..., 'data': ...})
WebAddFinding(t) ==
    /\ th[t].pc = "w_add"
    /\ LET k == th[t].o
           o == Len(heap) + 1
           d == [type |-> WebTypes[k], data |-> "collected"]
       IN  /\ heap' = AddFindingStamp(AddFindingModule(WithArg(o, d), o, WebModules[k]), o, now)
           /\ reports' = AddFindingAppend(reports, OwnReport(t), o)
           /\ calls' = Append(calls, [op |-> "add_finding", r |-> OwnReport(t), o |-> o])
           /\ result' = [op |-> "add_finding", r |-> OwnReport(t)]
           /\ th' = IF k < Len(WebSteps)
                     THEN [th EXCEPT ![t].pc = "w_emit", ![t].o = k + 1]
                     ELSE [th EXCEPT ![t].pc = "w_save_json", ![t].o = 0]
    /\ UNCHANGED << now, files, output_dir, emitted >>

\* json_report = report_gen.save_report(report, 'json') and
\* html_report = report_gen.save_report(report, 'html'); an exception ends the
\* thread
WebSave(t, pc, format_type, local, next, io_ok) ==
    /\ th[t].pc = pc
    /\ Saving(OwnReport(t), format_type, io_ok, now)
    /\ th' = IF result'.outcome = "return"
              THEN Observe(t, next, local, result'.value)
              ELSE Goto(t, "w_dead")
    /\ UNCHANGED << heap, output_dir, calls, emitted >>

\* socketio.emit('task_complete', {...})
WebEmitComplete(t) ==
    /\ th[t].pc = "w_complete"
    /\ emitted' = Emit(t, TaskComplete(th[t].obs["case_id"], th[t].obs["json_report"],
                                       th[t].obs["html_report"]))
    /\ th' = Goto(t, "w_done")
    /\ UNCHANGED << heap, reports, now, files, output_dir, result, calls >>

InitWeb ==
    /\ heap = << >>
    /\ reports = << >>
    /\ now = 0
    /\ files = {}
    /\ output_dir = TRUE
    /\ result = [op |-> "init"]
    /\ calls = << >>
    /\ th = [t \in Threads |-> Idle]
    /\ emitted = [t \in Threads |-> << >>]

NextWeb ==
    \E t \in Threads :
        \/ \E case_id \in NameCaseIds : RunCollection(t, case_id)
        \/ \E clock \in ClockValues : WebCreate(t, clock)
        \/ WebEmitProgress(t)
        \/ WebAddFinding(t)
        \/ \E io_ok \in BOOLEAN :
               WebSave(t, "w_save_json", "json", "json_report", "w_save_html", io_ok)
        \/ \E io_ok \in BOOLEAN :
               WebSave(t, "w_save_html", "html", "html_report", "w_complete", io_ok)
        \/ WebEmitComplete(t)

SpecWeb == InitWeb /\ [][NextWeb]_vars

\* ------------------------------------------------------------------- claims
Lists == { "findings", "artifacts", "timeline" }

AddOp(list) ==
    CASE list = "findings" -> "add_finding"
      [] list = "artifacts" -> "add_artifact"
      [] list = "timeline" -> "add_timeline_event"

\* the calls of one operation on report r, in call order
CallsOf(r, op) ==
    LET IsOp(c) == c.op = op /\ c.r = r
    IN  SelectSeq(calls, IsOp)

\* the objects those calls passed, in call order
Passed(r, op) == [i \in 1..Len(CallsOf(r, op)) |-> CallsOf(r, op)[i].o]

\* the list positions of the dicts that satisfy P
Count(items, P(_)) == Cardinality({ i \in 1..Len(items) : P(items[i]) })

\* C1 - Append monotonicity: after N calls of add_finding (add_artifact,
\* add_timeline_event) on a report, its findings (artifacts, timeline) list
\* has exactly N entries and the i-th entry is the object the i-th call
\* passed; the calls of one operation leave the other two lists alone.
C1_AppendMonotonicity ==
    \A r \in RIds : \A list \in Lists : reports[r][list] = Passed(r, AddOp(list))

C1_Witness ==
    \E r \in RIds :
        /\ Len(reports[r].findings) = 2
        /\ reports[r].findings[1] # reports[r].findings[2]

\* C2 - Append-only log: no call removes, moves or changes an entry that is
\* already in findings / artifacts / timeline, also when a caller passes the
\* same dict to more than one add_* call.
C2_AppendOnlyLog ==
    [][\A r \in RIds : \A list \in Lists : \A i \in 1..Len(reports[r][list]) :
           /\ i <= Len(reports'[r][list])
           /\ reports'[r][list][i] = reports[r][list][i]
           /\ heap'[reports[r][list][i]] = heap[reports[r][list][i]]]_vars

\* the operation a thread is inside of
OpOfPc(pc) ==
    CASE pc \in { "af_module", "af_stamp", "af_append" } -> "add_finding"
      [] pc \in { "aa_stamp", "aa_append" } -> "add_artifact"
      [] pc \in { "at_check", "at_stamp", "at_append" } -> "add_timeline_event"
      [] OTHER -> "none"

Running(r, op) == Cardinality({ t \in Threads : OpOfPc(th[t].pc) = op /\ th[t].r = r })

\* C3 - No lost updates: under every interleaving of the statements of
\* concurrent add_* calls, each completed call has lengthened its list by
\* exactly one: the length of a list is the number of calls made on it less
\* the calls still running, so once all K calls are done the lists hold K
\* entries.
C3_NoLostUpdates ==
    \A r \in RIds : \A list \in Lists :
        Len(reports[r][list]) + Running(r, AddOp(list)) = Len(CallsOf(r, AddOp(list)))

\* two calls ran concurrently and the later one appended first
C3_Witness ==
    /\ \A t \in Threads : th[t].pc = "idle"
    /\ \E r \in RIds :
           /\ Len(reports[r].findings) = 2
           /\ reports[r].findings[1] > reports[r].findings[2]

\* C4 - No partially-constructed entry is observable: every entry found in
\* findings / artifacts / timeline carries its module and timestamp, and these
\* two fields never change once the entry is in the list.
C4_NoPartialEntry ==
    [][\A r \in RIds : \A list \in Lists : \A i \in 1..Len(reports[r][list]) :
           LET o == reports[r][list][i]
           IN  /\ "timestamp" \in DOMAIN heap[o]
               /\ list = "findings" => "module" \in DOMAIN heap[o]
               /\ Get(heap'[o], "module", "") = Get(heap[o], "module", "")
               /\ Get(heap'[o], "timestamp", StrEmpty) = Get(heap[o], "timestamp", StrEmpty)]_vars

\* C5 - Snapshot-then-render: a completed html render shows one snapshot: the
\* Total Findings tile, the Detailed Findings header, the number of finding
\* cards and the sum of the severity counts are all equal, and so are tile,
\* header and listing of the artifacts and of the timeline.
C5_SnapshotRender ==
    \A t \in Threads :
        th[t].pc = "rendered" =>
            LET obs == th[t].obs
            IN  /\ obs["tile_findings"] = obs["header_findings"]
                /\ obs["tile_findings"] = Len(obs["cards_findings"].cards)
                /\ obs["tile_findings"] = SumValues(obs["severity_counts"])
                /\ obs["tile_artifacts"] = obs["header_artifacts"]
                /\ obs["tile_artifacts"] = Len(obs["cards_artifacts"].cards)
                /\ obs["tile_timeline"] = obs["header_timeline"]
                /\ obs["tile_timeline"] = Len(obs["cards_timeline"].cards)

FiveLevels == { "Critical", "High", "Medium", "Low", "Info" }

HasSeverity(finding, sev) == "severity" \in DOMAIN finding /\ finding["severity"] = sev

\* the findings of the report the latest aggregation ran on
AggregatedFindings == Deref(heap, reports[result.r].findings)
AggregatedArtifacts == Deref(heap, reports[result.r].artifacts)

\* C6 - Severity distribution: the severity map has exactly the five keys;
\* Critical / High / Medium / Low count the findings of exactly that severity,
\* Info counts the findings whose severity is Info, missing or unrecognized;
\* the five values sum to len(findings).
C6_SeverityDistribution ==
    result.op = "aggregate" =>
        LET counts == result.stats.viz.severity_counts
            IsOther(f) == \A sev \in FiveLevels \ { "Info" } : ~HasSeverity(f, sev)
        IN  /\ DOMAIN counts = FiveLevels
            /\ \A sev \in FiveLevels \ { "Info" } :
                   LET Is(f) == HasSeverity(f, sev)
                   IN  counts[sev] = Count(AggregatedFindings, Is)
            /\ counts["Info"] = Count(AggregatedFindings, IsOther)
            /\ SumValues(counts) = Len(AggregatedFindings)

C6_Witness ==
    /\ result.op = "aggregate"
    /\ \E i, j \in 1..Len(AggregatedFindings) :
           /\ HasSeverity(AggregatedFindings[i], "Bogus")
           /\ "severity" \notin DOMAIN AggregatedFindings[j]
    /\ result.stats.viz.severity_counts["Info"] = 2

\* severity precedence, with the value named for the third case
Precedence(findings, otherwise) ==
    IF \E i \in 1..Len(findings) : HasSeverity(findings[i], "Critical") THEN "critical"
    ELSE IF \E i \in 1..Len(findings) : HasSeverity(findings[i], "High") THEN "warning"
    ELSE otherwise

CriticalCount(findings) ==
    LET IsCritical(f) == HasSeverity(f, "Critical")
    IN  Count(findings, IsCritical)

\* C7 as stated - Severity precedence: the overall severity class is critical
\* if a finding is Critical, else warning if a finding is High, else normal;
\* critical_count is the number of Critical findings.
C7_SeverityPrecedence ==
    result.op = "aggregate" =>
        /\ result.stats.viz.severity_class = Precedence(AggregatedFindings, "normal")
        /\ result.stats.viz.critical_findings = CriticalCount(AggregatedFindings)

\* C7 as amended - the third value is success: the overall severity class is
\* critical if a finding is Critical, else warning if a finding is High, else
\* success; critical_count is the number of Critical findings.
C7_SeverityPrecedenceSuccess ==
    result.op = "aggregate" =>
        /\ result.stats.viz.severity_class = Precedence(AggregatedFindings, "success")
        /\ result.stats.viz.critical_class = Precedence(AggregatedFindings, "success")
        /\ result.stats.viz.critical_findings = CriticalCount(AggregatedFindings)

C7_Witness ==
    /\ result.op = "aggregate"
    /\ \E i, j \in 1..Len(AggregatedFindings) :
           /\ HasSeverity(AggregatedFindings[i], "High")
           /\ HasSeverity(AggregatedFindings[j], "Critical")
           /\ i < j
    /\ result.stats.viz.severity_class = "critical"

\* by_module and the sums, common to C8 as stated and as amended
ModuleCounts ==
    LET counts == result.stats.viz.module_counts
    IN  /\ DOMAIN counts = { AggregatedFindings[i]["module"] : i \in 1..Len(AggregatedFindings) }
        /\ \A m \in DOMAIN counts :
               LET Is(f) == f["module"] = m
               IN  counts[m] = Count(AggregatedFindings, Is)
        /\ SumValues(counts) = Len(AggregatedFindings)
        /\ SumValues(result.stats.viz.artifact_types) = Len(AggregatedArtifacts)

\* C8 as stated - Per-category counts: the keys of by_module are the distinct
\* modules of the findings and by_module[m] is the number of findings of
\* module m; by_artifact_type[t] is the number of artifacts with type t; the
\* values sum to len(findings) and len(artifacts).
C8_PerCategoryCounts ==
    result.op = "aggregate" =>
        /\ ModuleCounts
        /\ \A t \in DOMAIN result.stats.viz.artifact_types :
               LET Is(a) == "type" \in DOMAIN a /\ a["type"] = t
               IN  result.stats.viz.artifact_types[t] = Count(AggregatedArtifacts, Is)

\* C8 as amended - an artifact without a type is counted under "Unknown":
\* by_artifact_type has as keys the types of the artifacts, "Unknown" standing
\* for a missing type, and by_artifact_type[t] is the number of artifacts of
\* that type.
C8_PerCategoryCountsUnknown ==
    result.op = "aggregate" =>
        LET TypeOf(a) == IF "type" \in DOMAIN a THEN a["type"] ELSE "Unknown"
            types == result.stats.viz.artifact_types
        IN  /\ ModuleCounts
            /\ DOMAIN types = { TypeOf(AggregatedArtifacts[i]) : i \in 1..Len(AggregatedArtifacts) }
            /\ \A t \in DOMAIN types :
                   LET Is(a) == TypeOf(a) = t
                   IN  types[t] = Count(AggregatedArtifacts, Is)

C8_Witness ==
    /\ result.op = "aggregate"
    /\ \E m \in Modules : result.stats.viz.module_counts = [x \in { m } |-> 2]
    /\ result.stats.viz.artifact_types = [x \in { "PCAP", "Unknown" } |-> 1]

\* C9 - Idempotent aggregation: an aggregation leaves the report and its
\* entries as they were, and an aggregation that follows an aggregation of the
\* same report returns the same statistics.
C9_IdempotentAggregation ==
    [][result'.op = "aggregate" =>
           /\ heap' = heap
           /\ reports' = reports
           /\ (result.op = "aggregate" /\ result.r = result'.r) => result'.stats = result.stats]_vars

\* aggregated: a timeline whose two events are not in ascending order
C9_Witness ==
    /\ result.op = "aggregate"
    /\ LET timeline == reports[result.r].timeline
       IN  /\ Len(timeline) = 2
           /\ StrLess(SortKey(heap, timeline[2]), SortKey(heap, timeline[1]))

\* C10 - Rendering and saving do not mutate the model: a save_report call,
\* whether it returns a path or raises (unknown format, write error), leaves
\* the report's metadata, lists and entries as they were.
C10_SaveLeavesReport ==
    [][result'.op = "save_report" => heap' = heap /\ reports' = reports]_vars

\* saved as html: a timeline of two events in ascending order
C10_Witness ==
    /\ result.op = "save_report"
    /\ result.format = "html"
    /\ result.outcome = "return"
    /\ LET timeline == reports[result.r].timeline
       IN  /\ Len(timeline) = 2
           /\ StrLess(SortKey(heap, timeline[1]), SortKey(heap, timeline[2]))

\* the one-to-one maps of 1..n onto itself
Bijections(n) == { p \in [1..n -> 1..n] : \A i, j \in 1..n : p[i] = p[j] => i = j }

\* C11 - timeline_sorted is a permutation of the report's timeline, ascending
\* by string comparison of the timestamps, and stable: events with equal
\* timestamps keep the order in which they were inserted.
C11_TimelineSortedStable ==
    result.op = "aggregate" =>
        LET timeline == reports[result.r].timeline
            sorted == result.stats.viz.timeline_data
            n == Len(timeline)
        IN  /\ Len(sorted) = n
            /\ \E p \in Bijections(n) :
                   /\ \A i \in 1..n : sorted[i] = timeline[p[i]]
                   /\ \A i, j \in 1..n :
                          i < j =>
                              /\ ~StrLess(SortKey(heap, sorted[j]), SortKey(heap, sorted[i]))
                              /\ SortKey(heap, sorted[i]) = SortKey(heap, sorted[j]) => p[i] < p[j]

\* aggregated: three events, two different ones with the same timestamp and
\* one inserted before an event with a smaller timestamp
C11_Witness ==
    /\ result.op = "aggregate"
    /\ LET timeline == reports[result.r].timeline
       IN  /\ Len(timeline) = 3
           /\ \E i, j \in 1..3 :
                  /\ i < j
                  /\ timeline[i] # timeline[j]
                  /\ SortKey(heap, timeline[i]) = SortKey(heap, timeline[j])
           /\ \E i, j \in 1..3 :
                  i < j /\ StrLess(SortKey(heap, timeline[j]), SortKey(heap, timeline[i]))

Reverse(s) == [i \in 1..Len(s) |-> s[Len(s) + 1 - i]]

DistinctTimestamps(h, timeline) ==
    \A i, j \in 1..Len(timeline) : i # j => SortKey(h, timeline[i]) # SortKey(h, timeline[j])

\* the file a returning save_report wrote
SavedFile == CHOOSE f \in files : f.path = result.value

\* C12 - Timeline ordering divergence: when the timestamps of the events are
\* pairwise distinct, whatever the insertion order, timeline_sorted lists the
\* events in strictly ascending order and the timeline section of the html
\* report lists the same events in exactly the reverse order.
C12_TimelineOrderingDivergence ==
    (result.op = "save_report" /\ result.outcome = "return" /\ result.format = "html") =>
        LET timeline == reports[result.r].timeline
            sorted == PrepareTimelineData(heap, timeline)
        IN  DistinctTimestamps(heap, timeline) =>
                /\ Len(sorted) = Len(timeline)
                /\ { sorted[i] : i \in 1..Len(sorted) } = { timeline[i] : i \in 1..Len(timeline) }
                /\ \A i, j \in 1..Len(sorted) :
                       i < j => StrLess(SortKey(heap, sorted[i]), SortKey(heap, sorted[j]))
                /\ SavedFile.content.timeline.cards
                       = Reverse([i \in 1..Len(sorted) |-> TimelineItem(heap[sorted[i]])])

\* saved as html: three events T1 < T2 < T3 inserted neither in ascending nor
\* in descending order
C12_Witness ==
    /\ result.op = "save_report"
    /\ result.outcome = "return"
    /\ result.format = "html"
    /\ LET timeline == reports[result.r].timeline
       IN  /\ Len(timeline) = 3
           /\ DistinctTimestamps(heap, timeline)
           /\ StrLess(SortKey(heap, timeline[2]), SortKey(heap, timeline[1]))
           /\ StrLess(SortKey(heap, timeline[2]), SortKey(heap, timeline[3]))

\* the step is a call of op: it adds a call of op to the history
IsCall(op) == Len(calls') = Len(calls) + 1 /\ calls'[Len(calls')].op = op

C14_RecordedAt ==
    \A r \in RIds : \A list \in { "findings", "artifacts" } :
        LET entries == reports[r][list]
        IN  /\ (result.op = AddOp(list) /\ result.r = r) =>
                   heap[entries[Len(entries)]]["timestamp"] = IsoFormat(now)
            /\ \A i, j \in 1..Len(entries) :
                   i < j => ~StrLess(heap[entries[j]]["timestamp"], heap[entries[i]]["timestamp"])

\* C15 - create_report with an empty case_id yields no report; a report
\* starts with empty findings, artifacts and timeline.
C15_CreateReportRejectsEmpty ==
    /\ \A r \in RIds : reports[r].case_id # StrEmpty
    /\ result.op = "create_report" =>
           \A list \in Lists : reports[result.r][list] = << >>

\* C16 - Severity is normalized at insertion: every finding stored in a
\* report has a severity, one of Critical, High, Medium, Low, Info.
C16_SeverityNormalized ==
    \A r \in RIds : \A i \in 1..Len(reports[r].findings) :
        LET finding == heap[reports[r].findings[i]]
        IN  "severity" \in DOMAIN finding /\ finding["severity"] \in FiveLevels

Supported == { "json", "html", "txt" }

\* C17 - save_report with a format other than json, html, txt ends in an
\* UnsupportedFormat error for that call only: no file is created or
\* modified, no path is returned, the report is unchanged, and the error does
\* not show in a following save of a supported format.
C17_UnsupportedFormat ==
    [][/\ (result'.op = "save_report" /\ result'.format \notin Supported) =>
              /\ result'.outcome = "raise"
              /\ result'.error = "UnsupportedFormat"
              /\ result'.value = StrEmpty
              /\ files' = files
              /\ reports' = reports
              /\ heap' = heap
       /\ (result'.op = "save_report" /\ result'.format \in Supported) =>
              result'.error \in { "", "OSError" }]_vars

\* the characters of a format name
FormatChars(format_type) ==
    CASE format_type = "json" -> << 106, 115, 111, 110 >>
      [] format_type = "html" -> << 104, 116, 109, 108 >>
      [] format_type = "txt" -> << 116, 120, 116 >>

\* <case_id>_<time>_report.<fmt>
ReportPath(case_id, time, format_type) ==
    case_id \o << 95 >> \o StrfTime(time) \o << 95 >>
        \o << 114, 101, 112, 111, 114, 116 >> \o << 46 >> \o FormatChars(format_type)

\* C18 - For every supported format a returning save_report writes exactly one
\* file, named <case_id>_<YYYYMMDD_HHMMSS>_report.<fmt> with the time of the
\* save call, holding the output of the renderer of that format, and returns
\* the path of that file; the other files stay as they are.
C18_FileNaming ==
    [][(result'.op = "save_report" /\ result'.outcome = "return") =>
           LET report == reports[result'.r]
               format_type == result'.format
               path == ReportPath(report.case_id, now', format_type)
               content == CASE format_type = "json" -> JsonDump(heap, report)
                            [] format_type = "html" -> GenerateHtmlReport(heap, report)
                            [] format_type = "txt" -> GenerateTextReport(heap, report)
           IN  /\ format_type \in Supported
               /\ result'.value = path
               /\ files' = { f \in files : f.path # path }
                               \cup { [path |-> path, content |-> content] }]_vars

\* saved at time 1 a report created at time 0, next to a file of another format
C18_Witness ==
    /\ result.op = "save_report"
    /\ result.outcome = "return"
    /\ now = 1
    /\ reports[result.r].timestamp = IsoFormat(0)
    /\ \E f, g \in files :
           /\ f.path = result.value
           /\ f.content.format = result.format
           /\ g.content.format # f.content.format

\* C19 - Two save_report calls return the same path only if they agree on
\* case_id, format and save timestamp, and a save leaves every file of
\* another path as it is.
C19_UniqueFile ==
    [][(result'.op = "save_report" /\ result'.outcome = "return") =>
           /\ (result.op = "save_report" /\ result.outcome = "return"
                   /\ result.value = result'.value) =>
                  /\ reports[result.r].case_id = reports[result'.r].case_id
                  /\ result.format = result'.format
                  /\ now = now'
           /\ \A f \in files : f.path # result'.value => f \in files']_vars

\* two files in the directory, of the same format and time, for reports
\* that differ in the case_id only
C19_Witness ==
    /\ result.op = "save_report"
    /\ result.outcome = "return"
    /\ now = 0
    /\ \E f, g \in files :
           /\ f.content.format = g.content.format
           /\ f.content.case_id # g.content.case_id

\* C20 - save_report creates the output directory if it is absent at the
\* time of the save and then writes the file.
C20_SaveCreatesDirectory ==
    [][(result'.op = "save_report" /\ result'.format \in Supported /\ ~output_dir) =>
           /\ output_dir'
           /\ result'.error # "FileNotFoundError"]_vars

\* json.load: a JSON string becomes a str, a JSON array a list
JsonDecode(k, j) ==
    IF k \in SequenceKeys
    THEN [py |-> "list", items |-> [i \in 1..Len(j.items) |-> j.items[i].value]]
    ELSE j.value

PyDict(object) == [k \in DOMAIN object |-> JsonDecode(k, object[k])]

JsonLoad(doc) ==
    [ case_id |-> doc.case_id.value,
      timestamp |-> doc.timestamp.value,
      hostname |-> doc.hostname.value,
      vivisect_version |-> doc.vivisect_version.value,
      modules |-> PyDict(doc.modules),
      findings |-> [i \in 1..Len(doc.findings) |-> PyDict(doc.findings[i])],
      artifacts |-> [i \in 1..Len(doc.artifacts) |-> PyDict(doc.artifacts[i])],
      timeline |-> [i \in 1..Len(doc.timeline) |-> PyDict(doc.timeline[i])] ]

\* the report with its entries in place of the references to them
ReportValue(h, report) ==
    [report EXCEPT !.findings = Deref(h, @),
                   !.artifacts = Deref(h, @),
                   !.timeline = Deref(h, @)]

Saved(format_type) ==
    result.op = "save_report" /\ result.outcome = "return" /\ result.format = format_type

\* C21 - Round-trip: parsing the json output of save_report yields a
\* structure equal to the report: the same metadata and, in order, every
\* finding, artifact and event with every field equal.
C21_JsonRoundTrip ==
    Saved("json") => JsonLoad(SavedFile.content) = ReportValue(heap, reports[result.r])

\* every payload value of the report is a str
OnlyStrings(h, report) ==
    \A i \in 1..Len(report.findings) :
        DOMAIN h[report.findings[i]] \cap SequenceKeys = {}

\* C21 restricted to reports whose payload values are all strings
C21_StringsRoundTrip ==
    (Saved("json") /\ OnlyStrings(heap, reports[result.r])) =>
        JsonLoad(SavedFile.content) = ReportValue(heap, reports[result.r])

\* the value shown for key k of entry d, placeholder when the key is missing
Shown(d, k, placeholder) == IF k \in DOMAIN d THEN d[k] ELSE placeholder

\* C22 - The text renderer lists the findings with a 1-based index in
\* insertion order, Finding #i showing module, type, description and severity
\* of the i-th inserted finding, and the artifacts likewise as Artifact #i.
C22_TextOrder ==
    Saved("txt") =>
        LET report == reports[result.r]
            text == SavedFile.content
        IN  /\ text.findings_count = Len(report.findings)
            /\ Len(text.findings) = Len(report.findings)
            /\ \A i \in 1..Len(report.findings) :
                   LET finding == heap[report.findings[i]]
                   IN  text.findings[i] =
                           [ index |-> i,
                             module |-> finding["module"],
                             type |-> Shown(finding, "type", "General"),
                             description |-> Shown(finding, "description", "N/A"),
                             severity |-> Shown(finding, "severity", "Info") ]
            /\ text.artifacts_count = Len(report.artifacts)
            /\ Len(text.artifacts) = Len(report.artifacts)
            /\ \A i \in 1..Len(report.artifacts) :
                   LET artifact == heap[report.artifacts[i]]
                   IN  text.artifacts[i] =
                           [ index |-> i,
                             type |-> Shown(artifact, "type", "Unknown"),
                             path |-> Shown(artifact, "path", "N/A"),
                             hash |-> Shown(artifact, "hash", "N/A") ]

\* saved as text: a finding without severity inserted before a Critical one,
\* and two different artifacts
C22_Witness ==
    /\ Saved("txt")
    /\ LET report == reports[result.r]
       IN  /\ Len(report.findings) = 2
           /\ "severity" \notin DOMAIN heap[report.findings[1]]
           /\ HasSeverity(heap[report.findings[2]], "Critical")
           /\ heap[report.findings[1]]["module"] # heap[report.findings[2]]["module"]

\* C23 - The text format omits the timeline: a text file written for a report
\* is the text of every report that has the same metadata, findings and
\* artifacts, whatever its timeline (here: the report as it is after timeline
\* events were added to it).
C23_TextOmitsTimeline ==
    \A f \in files :
        f.content.format = "txt" =>
            \A r \in RIds : f.content = GenerateTextReport(heap, reports[r])

\* a text file was written and a timeline event added after it
C23_Witness ==
    /\ result.op = "add_timeline_event"
    /\ \E f \in files : f.content.format = "txt"
    /\ Len(reports[result.r].findings) > 0

\* what text and html show of a finding and of an artifact
ShownFinding(finding) ==
    [ type |-> Shown(finding, "type", "General"),
      description |-> Shown(finding, "description", "N/A"),
      severity |-> Shown(finding, "severity", "Info") ]

ShownArtifact(artifact) ==
    [ path |-> Shown(artifact, "path", "N/A"),
      hash |-> Shown(artifact, "hash", "N/A") ]

\* C27 - Renderers never fail on and never show a blank for a missing
\* optional field: every save of a report whose entries omit type,
\* description, severity, path, hash or size returns, and text and html show
\* 'N/A' for a missing description, path or hash and 'General' for a missing
\* finding type.
C27_MissingFieldPlaceholders ==
    result.op = "save_report" =>
        LET report == reports[result.r]
            findings == Deref(heap, report.findings)
            artifacts == Deref(heap, report.artifacts)
            events == Deref(heap, report.timeline)
            doc == SavedFile.content
        IN  /\ result.outcome = "return"
            /\ result.format = "txt" =>
                   /\ \A i \in 1..Len(findings) :
                          /\ doc.findings[i].type = ShownFinding(findings[i]).type
                          /\ doc.findings[i].description = ShownFinding(findings[i]).description
                          /\ doc.findings[i].severity = ShownFinding(findings[i]).severity
                   /\ \A i \in 1..Len(artifacts) :
                          /\ doc.artifacts[i].path = ShownArtifact(artifacts[i]).path
                          /\ doc.artifacts[i].hash = ShownArtifact(artifacts[i]).hash
                          /\ doc.artifacts[i].type # ""
            /\ result.format = "html" =>
                   /\ \A i \in 1..Len(findings) :
                          /\ doc.findings.cards[i].type = ShownFinding(findings[i]).type
                          /\ doc.findings.cards[i].description = ShownFinding(findings[i]).description
                          /\ doc.findings.cards[i].badge # ""
                   /\ \A i \in 1..Len(artifacts) :
                          /\ doc.artifacts.cards[i].path = ShownArtifact(artifacts[i]).path
                          /\ doc.artifacts.cards[i].hash = ShownArtifact(artifacts[i]).hash
                          /\ doc.artifacts.cards[i].type # ""
                          /\ "size" \notin DOMAIN artifacts[i] => ~doc.artifacts.cards[i].size_line
                   /\ Len(doc.timeline.cards) = Len(events)
                   /\ \A i \in 1..Len(events) :
                          \E j \in 1..Len(events) :
                              /\ doc.timeline.cards[j].description =
                                     Shown(events[i], "description", "N/A")
                              /\ doc.timeline.cards[j].type # ""

\* entries of a report saved as html
SavedHtmlEntries(key) == Deref(heap, reports[result.r][key])

\* saved as html: a finding without type, description and severity, an
\* artifact without path, hash and size, an event without description
C27_Witness ==
    /\ Saved("html")
    /\ \E i \in 1..Len(SavedHtmlEntries("findings")) :
           DOMAIN SavedHtmlEntries("findings")[i] \cap { "type", "description", "severity" } = {}
    /\ \E i \in 1..Len(SavedHtmlEntries("artifacts")) :
           DOMAIN SavedHtmlEntries("artifacts")[i] \cap { "path", "hash", "size", "type" } = {}
    /\ \E i \in 1..Len(SavedHtmlEntries("timeline")) :
           "description" \notin DOMAIN SavedHtmlEntries("timeline")[i]

\* the four charts with the count map under each
Charts == { "module", "severity", "timeline", "file_type" }

ChartCounts(stats, chart) ==
    CASE chart = "module" -> stats.viz.module_counts
      [] chart = "severity" -> stats.viz.severity_counts
      [] chart = "timeline" -> stats.timeline_counts
      [] chart = "file_type" -> stats.viz.artifact_types

ChartOf(doc, chart) ==
    CASE chart = "module" -> doc.module_chart
      [] chart = "severity" -> doc.severity_chart
      [] chart = "timeline" -> doc.timeline_chart
      [] chart = "file_type" -> doc.file_type_chart

\* C24 - Never an empty chart: for each of the four charts the html renderer
\* emits the no-data placeholder whenever the chart's count map is empty or
\* sums to zero, and otherwise the canvas together with a script carrying the
\* non-empty data; never a canvas without a matching script.
C24_NeverEmptyChart ==
    Saved("html") =>
        LET doc == SavedFile.content
            stats == Stats(heap, reports[result.r])
        IN  \A chart \in Charts :
                IF SumValues(ChartCounts(stats, chart)) = 0
                THEN ChartOf(doc, chart) = "no-data" /\ ~doc.scripts[chart].present
                ELSE /\ ChartOf(doc, chart) = "canvas"
                     /\ doc.scripts[chart].present
                     /\ doc.scripts[chart].data = ChartCounts(stats, chart)

\* C24 for the module, severity and artifact-type charts
C24_ThreeCharts ==
    Saved("html") =>
        LET doc == SavedFile.content
            stats == Stats(heap, reports[result.r])
        IN  \A chart \in Charts \ { "timeline" } :
                IF SumValues(ChartCounts(stats, chart)) = 0
                THEN ChartOf(doc, chart) = "no-data" /\ ~doc.scripts[chart].present
                ELSE /\ ChartOf(doc, chart) = "canvas"
                     /\ doc.scripts[chart].present
                     /\ doc.scripts[chart].data = ChartCounts(stats, chart)

EmptySaved ==
    /\ Saved("html")
    /\ reports[result.r].findings = << >>
    /\ reports[result.r].artifacts = << >>

\* C25 - Zero-data chart guard on an empty report: for a report with no
\* findings and no artifacts the aggregation yields by_severity with the five
\* keys at 0, and the html renderer emits the no-data placeholder for the
\* module chart and the artifact-type chart while still rendering the
\* severity chart with its five zero-valued slices.
C25_ZeroDataGuard ==
    EmptySaved =>
        LET doc == SavedFile.content
            stats == Stats(heap, reports[result.r])
        IN  /\ stats.viz.severity_counts = SeverityZero
            /\ doc.module_chart = "no-data"
            /\ doc.file_type_chart = "no-data"
            /\ doc.severity_chart = "canvas"
            /\ doc.scripts.severity = Script(SeverityZero)

\* C25 as the code has it: for a report with no findings and no artifacts
\* the aggregation yields by_severity with the five keys at 0, and the html
\* renderer emits the no-data placeholder for the module chart, the
\* artifact-type chart and the severity chart, with no script for any of them.
C25_ZeroDataGuardAllThree ==
    EmptySaved =>
        LET doc == SavedFile.content
            stats == Stats(heap, reports[result.r])
        IN  /\ stats.viz.severity_counts = SeverityZero
            /\ DOMAIN stats.viz.module_counts = {}
            /\ DOMAIN stats.viz.artifact_types = {}
            /\ doc.module_chart = "no-data"
            /\ doc.file_type_chart = "no-data"
            /\ doc.severity_chart = "no-data"
            /\ doc.scripts.module = NoScript
            /\ doc.scripts.file_type = NoScript
            /\ doc.scripts.severity = NoScript

\* an empty report with timeline events, saved as html
C25_Witness == EmptySaved /\ reports[result.r].timeline # << >>

IsDigit(c) == c \in 48..57

\* a 2-digit hour of day, "00".."23"
IsHour(k) ==
    /\ Len(k) = 2
    /\ IsDigit(k[1]) /\ IsDigit(k[2])
    /\ (k[1] - 48) * 10 + (k[2] - 48) <= 23

\* the time part of a timestamp and whether an hour can be read from it
TimePart(timestamp) == IF HasT(timestamp) THEN AfterT(timestamp) ELSE << >>
Parseable(timestamp) ==
    Len(TimePart(timestamp)) >= 2 /\ IsHour(SubSeq(TimePart(timestamp), 1, 2))
HourOf(timestamp) == SubSeq(TimePart(timestamp), 1, 2)

\* C26 - activity_by_hour is best-effort: every key of the hour histogram is a
\* 2-digit hour in "00".."23"; each event whose timestamp contains a
\* parseable hour is counted once in that hour's bucket; an event whose
\* timestamp is unparseable (empty, no time part, non-numeric hour) is counted
\* in no bucket, so the counts sum to at most len(timeline).
C26_ActivityByHour ==
    result.op = "aggregate" =>
        LET counts == result.stats.timeline_counts
            events == Deref(heap, reports[result.r].timeline)
            InBucket(k, event) ==
                Parseable(event["timestamp"]) /\ HourOf(event["timestamp"]) = k
        IN  /\ \A k \in DOMAIN counts :
                   /\ IsHour(k)
                   /\ counts[k] = Cardinality({ i \in 1..Len(events) : InBucket(k, events[i]) })
            /\ \A i \in 1..Len(events) :
                   Parseable(events[i]["timestamp"]) =>
                       HourOf(events[i]["timestamp"]) \in DOMAIN counts
            /\ SumValues(counts) <= Len(events)

\* the hour buckets of the code: an event with a non-empty timestamp is
\* counted under the two characters after 'T' (under "00" when there is no
\* 'T') followed by ":00"; an event with an empty timestamp in no bucket
C26_BucketsOfTheCode ==
    result.op = "aggregate" =>
        LET counts == result.stats.timeline_counts
            events == Deref(heap, reports[result.r].timeline)
        IN  /\ \A k \in DOMAIN counts :
                   counts[k] = Cardinality({ i \in 1..Len(events) :
                                   /\ events[i]["timestamp"] # StrEmpty
                                   /\ HourKey(events[i]["timestamp"]) = k })
            /\ SumValues(counts) =
                   Cardinality({ i \in 1..Len(events) : events[i]["timestamp"] # StrEmpty })

\* the level in whose bucket the aggregation counts one finding
BucketOf(finding) ==
    CHOOSE level \in FiveLevels : SeverityLoop(<< finding >>, SeverityZero)[level] = 1

\* C28 - Severity is classified consistently across the html report: the
\* severity class and badge of a finding's card name the same level as the
\* bucket in which the aggregation counts that finding; a finding styled
\* critical is counted in critical_count and makes the summary tiles critical.
C28_SeverityConsistent ==
    Saved("html") =>
        LET doc == SavedFile.content
            findings == Deref(heap, reports[result.r].findings)
        IN  \A i \in 1..Len(findings) :
                /\ doc.findings.cards[i].css = Lower(BucketOf(findings[i]))
                /\ doc.findings.cards[i].badge = Upper(Lower(BucketOf(findings[i])))
                /\ doc.findings.cards[i].css = "critical" =>
                       /\ doc.tile_critical >= 1
                       /\ doc.tile_critical_class = "critical"
                       /\ doc.tile_findings_class = "critical"

\* C28 for reports whose findings carry one of the five levels, or none
C28_CanonicalConsistent ==
    (Saved("html") /\ \A i \in 1..Len(reports[result.r].findings) :
                         "severity" \in DOMAIN heap[reports[result.r].findings[i]] =>
                             heap[reports[result.r].findings[i]]["severity"] \in FiveLevels) =>
        LET doc == SavedFile.content
            findings == Deref(heap, reports[result.r].findings)
        IN  \A i \in 1..Len(findings) :
                /\ doc.findings.cards[i].css = Lower(BucketOf(findings[i]))
                /\ doc.findings.cards[i].css = "critical" =>
                       doc.tile_critical >= 1 /\ doc.tile_critical_class = "critical"

\* the collections that have a report, and the findings of that report
Started == { t \in Threads : th[t].r # 0 }
WebFindings(t) == Deref(heap, reports[th[t].r].findings)

\* how many add_finding calls of its program a thread has completed
Added(t) ==
    CASE th[t].pc \in { "idle", "w_create" } -> 0
      [] th[t].pc \in { "w_emit", "w_add" } -> th[t].o - 1
      [] OTHER -> Len(WebSteps)

ProgressCount(t) ==
    Cardinality({ i \in 1..Len(emitted[t]) : emitted[t][i].event = "progress" })

Completed(t) ==
    \E i \in 1..Len(emitted[t]) : emitted[t][i].event = "task_complete"

\* C29 - Web full-collection ordering: in every run of the background task
\* the progress events are emitted in the order memory, browser, logs,
\* persistence, each before the corresponding finding is appended; the json
\* report is saved before the html report; task_complete is emitted only
\* after all four findings are appended and both reports are saved, and
\* carries the paths returned by those two saves.
C29_WebOrdering ==
    \A t \in Threads :
        LET events == emitted[t]
            locals == th[t].obs
            appended == IF t \in Started THEN Len(WebFindings(t)) ELSE 0
        IN  /\ Len(events) <= Len(WebSteps) + 1
            /\ \A i \in 1..Len(events) :
                   IF i <= Len(WebSteps)
                   THEN events[i] = [event |-> "progress", step |-> WebSteps[i],
                                     status |-> "running"]
                   ELSE events[i].event = "task_complete"
            /\ appended <= ProgressCount(t)
            /\ "json_report" \in DOMAIN locals => appended = Len(WebSteps)
            /\ "html_report" \in DOMAIN locals => "json_report" \in DOMAIN locals
            /\ Completed(t) =>
                   LET done == events[Len(events)]
                   IN  /\ appended = Len(WebSteps)
                       /\ { "json_report", "html_report" } \subseteq DOMAIN locals
                       /\ done.task = "collection"
                       /\ done.case_id = reports[th[t].r].case_id
                       /\ done.json_report = locals["json_report"]
                       /\ done.html_report = locals["html_report"]
                       /\ \E f \in files :
                              f.path = done.json_report /\ f.content.format = "json"
                       /\ \E f \in files :
                              f.path = done.html_report /\ f.content.format = "html"

\* one collection has emitted task_complete while another is between a
\* progress event and its finding
C29_Witness ==
    \E t, u \in Threads :
        /\ Completed(t)
        /\ th[u].pc = "w_add"
        /\ ProgressCount(u) = 2

\* C30 - Collection isolation: under every interleaving of concurrent
\* collections each thread appends only to the report it created, so the
\* report a collection saves holds exactly the four findings that thread
\* added (memory, then browser, logs, persistence under module artifacts), in
\* that order, and never a finding of another collection.
C30_CollectionIsolation ==
    /\ \A t \in Started :
           /\ Len(WebFindings(t)) = Added(t)
           /\ \A i \in 1..Len(WebFindings(t)) :
                  /\ WebFindings(t)[i]["module"] = WebModules[i]
                  /\ WebFindings(t)[i]["type"] = WebTypes[i]
           /\ \A u \in Started \ { t } :
                  /\ th[u].r # th[t].r
                  /\ \A i \in 1..Len(reports[th[t].r].findings),
                        j \in 1..Len(reports[th[u].r].findings) :
                         reports[th[t].r].findings[i] # reports[th[u].r].findings[j]
    /\ (result.op = "save_report" /\ result.outcome = "return") =>
           /\ Len(reports[result.r].findings) = Len(WebSteps)
           /\ SavedFile.content = Render(heap, reports[result.r], result.format)
           /\ result.format = "json" =>
                  /\ Len(SavedFile.content.findings) = Len(WebSteps)
                  /\ \A i \in 1..Len(WebSteps) :
                         /\ SavedFile.content.findings[i]["module"].value = WebModules[i]
                         /\ SavedFile.content.findings[i]["type"].value = WebTypes[i]

\* two collections whose add_finding calls alternated have both completed
C30_Witness ==
    /\ \A t \in Threads : Completed(t)
    /\ \E t \in Threads :
           \E i \in 1..(Len(WebSteps) - 1) :
               reports[th[t].r].findings[i + 1] # reports[th[t].r].findings[i] + 1

====
